---- MODULE Spec2Model ----
(***************************************************************************)
(* ambench: load generator and notification receiver for Alertmanager.     *)
(* Model of the event merge (mergeSortEvents), the webhook receiver, the   *)
(* load producers and the test-case loop (RunLoadTests / Main).            *)
(***************************************************************************)
EXTENDS Integers, Sequences, FiniteSets, TLC

(***************************************************************************)
(* Bounds                                                                  *)
(***************************************************************************)
MaxStreams == 2      \* merge inputs: number of event sequences
MaxStreamLen == 2    \* merge inputs: events per sequence
MaxTs == 3           \* merge inputs: timestamps 1..MaxTs
MaxTicks == 2        \* ticks delivered by the ticker of the producer of ConfigSolo
MaxRequests == 1     \* inbound webhook calls in the run of ConfigQuiet
MaxBatch == 2        \* batcher runs: batch_size 1..MaxBatch
MaxInterval == 2     \* batcher runs: rotation_interval 0..MaxInterval
MaxLines == 4        \* batcher runs: records in the dataset file 0..MaxLines
MaxCalls == 3        \* batcher runs: calls of makeAlerts by one producer
MaxAlerts == 2       \* hashing: alerts in a sequence

(***************************************************************************)
(* The runs explored.  A run is started with a configuration (the          *)
(* LoadTestConfigs of part_001:67-82; Lines is the number of records in    *)
(* the case's dataset file) and receives a number of webhook calls.        *)
(***************************************************************************)
\* Two cases that start no producer (the goroutines key left out).
ConfigIdle ==
  << [Goroutines |-> 0, BatchSize |-> 1, RotationInterval |-> 0, Lines |-> 1],
     [Goroutines |-> 0, BatchSize |-> 1, RotationInterval |-> 0, Lines |-> 1] >>
\* One case with two producers.
ConfigLoad ==
  << [Goroutines |-> 2, BatchSize |-> 1, RotationInterval |-> 1, Lines |-> 2] >>
\* A case with one producer, then a case without.
ConfigMixed ==
  << [Goroutines |-> 1, BatchSize |-> 1, RotationInterval |-> 1, Lines |-> 2],
     [Goroutines |-> 0, BatchSize |-> 1, RotationInterval |-> 0, Lines |-> 1] >>
\* One case whose dataset file is shorter than the first batch.
ConfigShort ==
  << [Goroutines |-> 1, BatchSize |-> 2, RotationInterval |-> 1, Lines |-> 1] >>

\* One case with one producer.
ConfigSolo ==
  << [Goroutines |-> 1, BatchSize |-> 1, RotationInterval |-> 1, Lines |-> 3] >>
\* One case that starts no producer.
ConfigQuiet ==
  << [Goroutines |-> 0, BatchSize |-> 1, RotationInterval |-> 0, Lines |-> 1] >>

\* requests is the number of webhook calls the run receives, ticks the number
\* of ticks the ticker of each producer delivers before the run is over.
Runs ==
  { [config |-> ConfigIdle, requests |-> 2, ticks |-> 0],
    [config |-> ConfigLoad, requests |-> 0, ticks |-> 1],
    [config |-> ConfigMixed, requests |-> 1, ticks |-> 1],
    [config |-> ConfigShort, requests |-> 0, ticks |-> 1],
    [config |-> ConfigSolo, requests |-> 0, ticks |-> MaxTicks],
    [config |-> ConfigQuiet, requests |-> MaxRequests, ticks |-> 0] }

\* The -alertmanagers flag (part_000:25-41).
alertmanagers == <<"am1", "am2">>

MaxOf(S) == CHOOSE x \in S : \A y \in S : y <= x
MaxCases == MaxOf({Len(r.config) : r \in Runs})
CaseConfigs == UNION {{r.config[c] : c \in 1..Len(r.config)} : r \in Runs}
MaxGoroutines == MaxOf({x.Goroutines : x \in CaseConfigs})
CaseIds == 1..MaxCases
ProducerIds == {<<c, p>> : c \in CaseIds, p \in 1..MaxGoroutines}
Requests == 1..MaxOf({r.requests : r \in Runs})

VARIABLES
  mIn,      \* mergeSortEvents: the argument e ([][]Event)
  mOut,     \* mergeSortEvents: the outcome [events, panic]
  mPc       \* "ready" before the call, "done" after it

VARIABLES
  config,     \* the LoadTestConfigs the process was started with
  requests,   \* the number of webhook calls the process will receive
  fires       \* the number of ticks each producer's ticker will deliver

VARIABLES
  proc,       \* "running", "exited" (Main returned) or "panicked"
  exitCode,   \* the process exit status, -1 while running
  mainPc,     \* Main: "listen", "select"
  done,       \* number of values in the buffered channel done (0..1)
  signals,    \* number of sends on done so far (history)
  panicIn     \* the call that panicked, "" while none (history)

VARIABLES
  oPc,        \* RunLoadTests: the statement it is at
  caseNo,     \* index of the test case of the current loop iteration
  cancelled,  \* per case: ctx.Done() is closed
  alertsFiredEvents,            \* lt.Events(), line 52
  ltI,                          \* lt.Events(): producers copied so far
  ltLen,                        \* lt.Events(): len of e[i] as made, line 173
  eLen,                         \* r.Events(): len of e as made, receive.go:86
  notificationsReceivedEvents,  \* r.Events(), line 53
  printQueue, \* the merged events not yet printed (lines 54-57)
  report,     \* per case: the lines written to the report file
  reportFile  \* per case: "none", "open", "closed"

VARIABLES
  pPc,            \* per producer: "new", "select", "get", "range", "post", "stopped"
  tick,           \* per producer: a tick is waiting in t.C
  ticks,          \* per producer: ticks delivered so far
  am,             \* per producer: position in the range over alertmanagers
  alerts,         \* per producer: the batch of the cycle in flight
  eventStore,     \* per producer: LoadProducer.eventStore
  index,          \* per producer: AlertProducer.index
  batchRepeated,  \* per producer: AlertProducer.batchRepeated
  dataset,        \* per case: Dataset.dataset, the materialized records
  scanned,        \* per case: lines the scanner has consumed
  dcap,           \* per case: cap(d.dataset)
  calls,          \* per producer: calls of Dataset.Get so far (history)
  lastGet,        \* per producer: its last call of Dataset.Get and its result
  posts,          \* per producer: calls of http.Post made (history)
  postErrors      \* calls of http.Post that returned an error (history)

VARIABLES
  now,            \* the last value time.Now() returned
  notifications,  \* notificationList.notifications
  mtx,            \* notificationList.mtx: 0 when free, else the request holding it
  hPc,            \* per request: "idle", "built", "adding", "added", "done"
  hN,             \* per request: the notification the handler built
  hErr,           \* per request: Decode returned an error
  hStatus,        \* per request: response status written, 0 while none
  hAdded          \* per request: when its notification was appended (history)

VARIABLES
  fIn,      \* fingerprints: the alerts a []*Alert, each a map of labels
  fPerm,    \* the order in which the alerts are handed over
  fOrder,   \* per alert handed over: the order its map is ranged over
  fOut,     \* the hashes and fingerprints computed
  fPc       \* "ready" before the calls, "done" after them

mergeVars == <<mIn, mOut, mPc>>
hashVars == <<fIn, fPerm, fOrder, fOut, fPc>>
mainVars == <<proc, exitCode, mainPc, done, signals, panicIn>>
orchVars == <<oPc, caseNo, cancelled, alertsFiredEvents, ltI, ltLen, eLen,
              notificationsReceivedEvents, printQueue, report, reportFile>>
prodVars == <<pPc, tick, ticks, am, alerts, eventStore, index, batchRepeated,
              dataset, scanned, dcap, calls, lastGet, posts, postErrors>>
recvVars == <<now, notifications, mtx, hPc, hN, hErr, hStatus, hAdded>>
runVars == <<config, requests, fires>>
vars == <<mergeVars, hashVars, runVars, mainVars, orchVars, prodVars, recvVars>>

NumCases == Len(config)
Cases == 1..NumCases
Producers(c) == 1..config[c].Goroutines

(***************************************************************************)
(* mergeSortEvents (part_001:134-167).  Go indices are 0-based; sequences  *)
(* here are 1-based, so slot i of the code is element i+1.                 *)
(***************************************************************************)
RemoveAt(s, i) == SubSeq(s, 1, i) \o SubSeq(s, i + 2, Len(s))

\* A scan that never moves min: the slot left by the previous iteration wins.
ScanMin_KeepsMin(e, indices, min, i) ==
  IF Len(e[min + 1]) > 0 /\ indices[min + 1] >= Len(e[min + 1])
    THEN [min |-> min, panic |-> TRUE]
    ELSE [min |-> min, panic |-> FALSE]

\* The inner "for i := range e" loop (lines 140-152), from slot i on, with the
\* running value of min.  min is whatever the previous outer iteration left.
RECURSIVE ScanMin(_, _, _, _)
ScanMin(e, indices, min, i) ==
  IF i >= Len(e) THEN [min |-> min, panic |-> FALSE]
  ELSE IF Len(e[i + 1]) = 0 THEN ScanMin(e, indices, min, i + 1)
  ELSE IF indices[i + 1] >= Len(e[i + 1]) THEN [min |-> min, panic |-> TRUE]
  ELSE IF indices[min + 1] >= Len(e[min + 1]) THEN [min |-> min, panic |-> TRUE]
  ELSE LET cur == e[i + 1][indices[i + 1] + 1]
           curMin == e[min + 1][indices[min + 1] + 1]
       IN IF cur.timestamp < curMin.timestamp
            THEN ScanMin(e, indices, i, i + 1)
            ELSE ScanMin(e, indices, min, i + 1)

\* One iteration of the outer "for len(e) != 0" loop (lines 139-164).
MergeIter(s) ==
  LET sc == ScanMin(s.e, s.indices, s.min, 0) IN
  IF sc.panic THEN [s EXCEPT !.panic = TRUE]
  ELSE
    LET min == sc.min
        minEvents == s.e[min + 1]
        minIndex == s.indices[min + 1]
        events == IF Len(minEvents) - 1 >= minIndex
                    THEN Append(s.events, minEvents[minIndex + 1])
                    ELSE s.events
        indices == [s.indices EXCEPT ![min + 1] = @ + 1]
    IN IF indices[min + 1] >= Len(s.e[min + 1])
         THEN [e |-> RemoveAt(s.e, min), indices |-> RemoveAt(indices, min),
               min |-> 0, events |-> events, panic |-> FALSE]
         ELSE [e |-> s.e, indices |-> indices,
               min |-> min, events |-> events, panic |-> FALSE]

RECURSIVE MergeLoop(_)
MergeLoop(s) ==
  IF s.panic \/ Len(s.e) = 0 THEN s ELSE MergeLoop(MergeIter(s))

mergeSortEvents(e) ==
  LET r == MergeLoop([e |-> e, indices |-> [i \in 1..Len(e) |-> 0],
                      min |-> 0, events |-> <<>>, panic |-> FALSE])
  IN [events |-> r.events, panic |-> r.panic]

(***************************************************************************)
(* Specification of the merge alone: every input of bounded size.          *)
(***************************************************************************)
\* An event sequence is appended to in the order of its time stamps
\* (part_001:241-247); it may be empty.
TsSeqs ==
  {x \in UNION {[1..n -> 1..MaxTs] : n \in 0..MaxStreamLen} :
     \A i \in 1..(Len(x) - 1) : x[i] <= x[i + 1]}
TsInputs == UNION {[1..k -> TsSeqs] : k \in 0..MaxStreams}

\* Events carry their origin (stream, pos): Go events are pointers and keep
\* their identity through the merge.
MkStreams(x) ==
  [s \in 1..Len(x) |->
     [i \in 1..Len(x[s]) |-> [timestamp |-> x[s][i], stream |-> s, pos |-> i]]]

NoResult == [events |-> <<>>, panic |-> FALSE]

NoNotification == [kind |-> "none"]
NotAdded == [case |-> 0, phase |-> "none"]
NoGet == [from |-> 0, to |-> 0, len |-> 0, read |-> 0, parses |-> 0,
          returned |-> FALSE, labelsets |-> <<>>]
\* The uint64 0, as its 8 bytes.
Zero64 == <<0, 0, 0, 0, 0, 0, 0, 0>>
NoHashes == [hashes |-> <<>>, fingerprint |-> Zero64, direct |-> Zero64,
             doubled |-> Zero64]

HashUnused ==
  /\ fIn = <<>> /\ fPerm = <<>> /\ fOrder = <<>> /\ fOut = NoHashes /\ fPc = "unused"

\* The state after Main has started RunLoadTests (part_000:74-78) and
\* NewWebhookReceiver has run (receive.go:71-77).
InitProcess ==
  /\ proc = "running" /\ exitCode = -1 /\ mainPc = "listen"
  /\ done = 0 /\ signals = 0 /\ panicIn = ""
  /\ oPc = IF NumCases = 0 THEN "send" ELSE "openReport"
  /\ caseNo = 1
  /\ cancelled = [c \in CaseIds |-> FALSE]
  /\ alertsFiredEvents = <<>> /\ ltI = 0 /\ ltLen = 0 /\ eLen = 0
  /\ notificationsReceivedEvents = <<>> /\ printQueue = <<>>
  /\ report = [c \in CaseIds |-> <<>>]
  /\ reportFile = [c \in CaseIds |-> "none"]
  /\ pPc = [i \in ProducerIds |-> "new"]
  /\ tick = [i \in ProducerIds |-> FALSE]
  /\ ticks = [i \in ProducerIds |-> 0]
  /\ am = [i \in ProducerIds |-> 0]
  /\ alerts = [i \in ProducerIds |-> <<>>]
  /\ eventStore = [i \in ProducerIds |-> <<>>]
  /\ index = [i \in ProducerIds |-> 0]
  /\ batchRepeated = [i \in ProducerIds |-> 0]
  /\ dataset = [c \in CaseIds |-> <<>>]
  /\ scanned = [c \in CaseIds |-> 0]
  /\ dcap = [c \in CaseIds |-> 0]
  /\ calls = [i \in ProducerIds |-> 0]
  /\ lastGet = [i \in ProducerIds |-> NoGet]
  /\ posts = [i \in ProducerIds |-> 0]
  /\ postErrors = 0
  /\ now = 0
  /\ notifications = <<>> /\ mtx = 0
  /\ hPc = [h \in Requests |-> "idle"]
  /\ hN = [h \in Requests |-> NoNotification]
  /\ hErr = [h \in Requests |-> FALSE]
  /\ hStatus = [h \in Requests |-> 0]
  /\ hAdded = [h \in Requests |-> NotAdded]

InitSystem ==
  /\ \E r \in Runs : config = r.config /\ requests = r.requests /\ fires = r.ticks
  /\ InitProcess

\* The merge is checked on its own: the process around it is left where
\* one run starts and never moves.
InitMerge ==
  /\ mIn \in {MkStreams(x) : x \in TsInputs}
  /\ mOut = NoResult
  /\ mPc = "ready"
  /\ config = ConfigShort /\ requests = 0 /\ fires = 0
  /\ InitProcess
  /\ HashUnused

MergeCall ==
  /\ mPc = "ready"
  /\ mOut' = mergeSortEvents(mIn)
  /\ mPc' = "done"
  /\ UNCHANGED <<mIn, hashVars, runVars, mainVars, orchVars, prodVars, recvVars>>

NextMerge == MergeCall

SpecMerge == InitMerge /\ [][NextMerge]_vars

(***************************************************************************)
(* Hashing of alerts (receive.go:130-174).  A uint64 is the sequence of    *)
(* its 8 bytes, least significant first; a string is the sequence of its   *)
(* bytes.                                                                  *)
(***************************************************************************)
RECURSIVE Carry(_, _, _)
Carry(cols, k, c) ==
  IF k > 8 THEN <<>>
  ELSE LET v == cols[k] + c IN <<v % 256>> \o Carry(cols, k + 1, v \div 256)

\* a + b and a * b modulo 2^64.
Add64(a, b) == LET f(k) == a[k] + b[k] IN Carry(<<f(1), f(2), f(3), f(4), f(5), f(6), f(7), f(8)>>, 1, 0)

RECURSIVE Col(_, _, _, _)
Col(a, b, k, i) == IF i > k THEN 0 ELSE a[i] * b[k + 1 - i] + Col(a, b, k, i + 1)
Mul64(a, b) == LET f(k) == Col(a, b, k, 1) IN Carry(<<f(1), f(2), f(3), f(4), f(5), f(6), f(7), f(8)>>, 1, 0)

RECURSIVE XorBits(_, _, _)
XorBits(x, y, n) ==
  IF n = 0 THEN 0 ELSE ((x + y) % 2) + 2 * XorBits(x \div 2, y \div 2, n - 1)

\* A combine that adds instead.
Xor64_Adds(a, b) == Add64(a, b)

\* a ^ b.
Xor64(a, b) == LET f(k) == XorBits(a[k], b[k], 8) IN <<f(1), f(2), f(3), f(4), f(5), f(6), f(7), f(8)>>

\* a >> n and a << n, 0 <= n < 64, and the rotation of a by n to the left.
Shr64(a, n) ==
  LET q == n \div 8
      t == n % 8
      at(i) == IF i <= 8 THEN a[i] ELSE 0
      f(k) == ((at(k + q) + 256 * at(k + q + 1)) \div (2 ^ t)) % 256
  IN <<f(1), f(2), f(3), f(4), f(5), f(6), f(7), f(8)>>
Shl64(a, n) ==
  LET q == n \div 8
      t == n % 8
      at(i) == IF i >= 1 THEN a[i] ELSE 0
      f(k) == (((at(k - q) * 256 + at(k - q - 1)) * (2 ^ t)) \div 256) % 256
  IN <<f(1), f(2), f(3), f(4), f(5), f(6), f(7), f(8)>>
Rotl64(a, n) == Add64(Shl64(a, n), Shr64(a, 64 - n))

\* The little-endian word of up to 8 bytes.
Word(b) == LET f(k) == IF k <= Len(b) THEN b[k] ELSE 0 IN <<f(1), f(2), f(3), f(4), f(5), f(6), f(7), f(8)>>

\* xxhash.Sum64 (XXH64 with seed 0, called at receive.go:149) on an input
\* shorter than 32 bytes.
Prime1 == <<135, 202, 235, 133, 177, 121, 55, 158>>
Prime2 == <<79, 235, 212, 39, 61, 174, 178, 194>>
Prime3 == <<249, 121, 55, 158, 177, 103, 86, 22>>
Prime4 == <<99, 174, 178, 194, 119, 202, 235, 133>>
Prime5 == <<197, 103, 86, 22, 47, 235, 212, 39>>

Round64(acc, input) == Mul64(Rotl64(Add64(acc, Mul64(input, Prime2)), 31), Prime1)

\* The loops over the input left after the 32-byte stripes: 8 bytes, then 4
\* bytes, then one byte at a time; s is the running hash h and the input b
\* not yet consumed.
RECURSIVE Finalize(_)
Finalize(s) ==
  IF Len(s.b) >= 8
    THEN Finalize([h |-> Add64(Mul64(Rotl64(Xor64(s.h,
                                  Round64(Zero64, Word(SubSeq(s.b, 1, 8)))), 27),
                                     Prime1), Prime4),
                   b |-> SubSeq(s.b, 9, Len(s.b))])
  ELSE IF Len(s.b) >= 4
    THEN Finalize([h |-> Add64(Mul64(Rotl64(Xor64(s.h,
                                  Mul64(Word(SubSeq(s.b, 1, 4)), Prime1)), 23),
                                     Prime2), Prime3),
                   b |-> SubSeq(s.b, 5, Len(s.b))])
  ELSE IF Len(s.b) >= 1
    THEN Finalize([h |-> Mul64(Rotl64(Xor64(s.h, Mul64(Word(<<s.b[1]>>), Prime5)), 11),
                               Prime1),
                   b |-> Tail(s.b)])
  ELSE s.h

Avalanche(h) ==
  LET h1 == Mul64(Xor64(h, Shr64(h, 33)), Prime2)
      h2 == Mul64(Xor64(h1, Shr64(h1, 29)), Prime3)
  IN Xor64(h2, Shr64(h2, 32))

Sum64(b) == Avalanche(Finalize([h |-> Add64(Prime5, Word(<<Len(b)>>)), b |-> b]))

\* The order of Go strings: byte-wise, a proper prefix first.
RECURSIVE LessStr(_, _)
LessStr(x, y) ==
  IF Len(y) = 0 THEN FALSE
  ELSE IF Len(x) = 0 THEN TRUE
  ELSE IF x[1] # y[1] THEN x[1] < y[1]
  ELSE LessStr(Tail(x), Tail(y))

RECURSIVE Insert(_, _)
Insert(sorted, x) ==
  IF Len(sorted) = 0 THEN <<x>>
  ELSE IF LessStr(x, sorted[1]) THEN <<x>> \o sorted
  ELSE <<sorted[1]>> \o Insert(Tail(sorted), x)

\* Names hashed in the order the map hands them out.
SortStrings_AsRanged(names) == names

\* sort.Strings(names), receive.go:140.
RECURSIVE SortStrings(_)
SortStrings(names) ==
  IF Len(names) = 0 THEN <<>>
  ELSE Insert(SortStrings(Tail(names)), names[1])

Sep == 255

\* The bytes appended for the sorted names, receive.go:142-147.
RECURSIVE LabelBytes(_, _)
LabelBytes(labels, names) ==
  IF Len(names) = 0 THEN <<>>
  ELSE names[1] \o <<Sep>> \o labels[names[1]] \o <<Sep>>
         \o LabelBytes(labels, Tail(names))

\* hashAlert(a), receive.go:130-153; order is the order in which the range
\* over the map a.Labels at line 137 hands out the names.
\* The buffer from the pool is empty: putHashBuffer puts b[:0] back
\* (receive.go:125-128).
hashAlert(labels, order) == Sum64(LabelBytes(labels, SortStrings(order)))

\* alertHashes(a), receive.go:155-160.
\* The alerts of the specification of the hashing: label names "a" and "ab", label values "1" and "2".
LabelNames == {<<97>>, <<97, 98>>}
LabelValues == {<<49>>, <<50>>}
LabelMaps == UNION {[ns -> LabelValues] : ns \in SUBSET LabelNames}
AlertSeqs == UNION {[1..n -> LabelMaps] : n \in 0..MaxAlerts}

\* The sequences that hold every element of set S once.
Orders(S) ==
  {o \in [1..Cardinality(S) -> S] : \A x \in S : \E k \in 1..Cardinality(S) : o[k] = x}

\* hashAlert of every label set of LabelMaps in every order of ranging,
\* evaluated once; hashAlertOnce is hashAlert, looked up there when it can be.
HashAlertTable ==
  UNION {{[labels |-> m, order |-> o, hash |-> hashAlert(m, o)] : o \in Orders(DOMAIN m)}
         : m \in LabelMaps}
hashAlertOnce(labels, order) ==
  IF \E t \in HashAlertTable : t.labels = labels /\ t.order = order
    THEN (CHOOSE t \in HashAlertTable : t.labels = labels /\ t.order = order).hash
    ELSE hashAlert(labels, order)

RECURSIVE alertHashes(_, _)
alertHashes(a, orders) ==
  IF Len(a) = 0 THEN <<>>
  ELSE Append(alertHashes(SubSeq(a, 1, Len(a) - 1), SubSeq(orders, 1, Len(a) - 1)),
              hashAlertOnce(a[Len(a)], orders[Len(a)]))

\* hashHashes(h), receive.go:162-167.
RECURSIVE hashHashes(_)
hashHashes(h) ==
  IF Len(h) = 0 THEN Zero64
  ELSE Xor64(hashHashes(SubSeq(h, 1, Len(h) - 1)), h[Len(h)])

\* hashAlerts(a), receive.go:169-174.
RECURSIVE hashAlerts(_, _)
hashAlerts(a, orders) ==
  IF Len(a) = 0 THEN Zero64
  ELSE Xor64(hashAlerts(SubSeq(a, 1, Len(a) - 1), SubSeq(orders, 1, Len(a) - 1)),
             hashAlertOnce(a[Len(a)], orders[Len(a)]))

(***************************************************************************)
(* Specification of the hashing alone: every bounded sequence of alerts,   *)
(* handed over in every order, every map ranged over in every order.       *)
(***************************************************************************)
\* For each alert of a, an order in which ranging over its labels can hand
\* out the names (receive.go:137).
RECURSIVE MapOrders(_)
MapOrders(a) ==
  IF Len(a) = 0 THEN {<<>>}
  ELSE {Append(os, o) : os \in MapOrders(SubSeq(a, 1, Len(a) - 1)),
                        o \in Orders(DOMAIN a[Len(a)])}

\* alertHashes and hashHashes as the handler calls them (receive.go:100-101)
\* and hashAlerts, on the alerts in the order fPerm, each map ranged over in
\* the order fOrder; the handler's two calls on the sequence followed by
\* itself.
HashCall ==
  /\ fPc = "ready"
  /\ \E perm \in Orders(1..Len(fIn)) :
       LET a == [i \in 1..Len(fIn) |-> fIn[perm[i]]] IN
       \E orders \in MapOrders(a) :
          LET h == <<alertHashes(a, orders)>> IN
          /\ fPerm' = perm
          /\ fOrder' = orders
          /\ fOut' = [hashes |-> h[1],
                      fingerprint |-> hashHashes(h[1]),
                      direct |-> hashAlerts(a, orders),
                      doubled |-> hashHashes(alertHashes(a \o a, orders \o orders))]
  /\ fPc' = "done"
  /\ UNCHANGED <<fIn, mergeVars, runVars, mainVars, orchVars, prodVars, recvVars>>

(***************************************************************************)
(* The process: Main (part_000:23-103) and runtime panics.                 *)
(***************************************************************************)
Running == proc = "running"

\* An unrecovered panic in any goroutine ends the process with status 2.
Panics(call) ==
  /\ proc' = "panicked" /\ exitCode' = 2 /\ panicIn' = call
  /\ UNCHANGED <<mainPc, done, signals>>

\* os.Exit(Main()), part_000:105-107.
Exits(code) == proc' = "exited" /\ exitCode' = code

\* time.Now(): no reading is earlier than one taken before it; two readings,
\* taken by two goroutines at the same time, can be equal.  now is 0 until
\* the first reading, which is 1.
NowValues == IF now = 0 THEN {1} ELSE {now, now + 1}

\* net.Listen and go srv.Serve(l), part_000:85-93.
MainListen ==
  /\ Running /\ mainPc = "listen"
  /\ \E ok \in BOOLEAN :
       IF ok THEN mainPc' = "select" /\ UNCHANGED <<proc, exitCode>>
             ELSE Exits(1) /\ UNCHANGED mainPc
  /\ UNCHANGED <<done, signals, panicIn, mergeVars, hashVars, runVars, orchVars, prodVars, recvVars>>

\* case <-term, part_000:96-97 and 102.
MainTerm ==
  /\ Running /\ mainPc = "select"
  /\ Exits(0)
  /\ UNCHANGED <<mainPc, done, signals, panicIn, mergeVars, hashVars, runVars, orchVars, prodVars, recvVars>>

\* case <-done, part_000:98-99 and 102.
MainDone ==
  /\ Running /\ mainPc = "select" /\ done > 0
  /\ done' = done - 1
  /\ Exits(0)
  /\ UNCHANGED <<mainPc, signals, panicIn, mergeVars, hashVars, runVars, orchVars, prodVars, recvVars>>

(***************************************************************************)
(* The webhook receiver (receive.go).                                      *)
(***************************************************************************)
\* Request bodies: a well-formed notification and one that is not JSON.
Bodies ==
  { [json |-> TRUE, groupKey |-> "g1", externalURL |-> "am1"],
    [json |-> FALSE, groupKey |-> "", externalURL |-> ""] }

\* json.NewDecoder(r.Body).Decode(&data) into data := WebhookData{}: on an
\* error data keeps its zero value (receive.go:95-96).
Decode(body) ==
  IF body.json
    THEN [err |-> FALSE, GroupKey |-> body.groupKey, ExternalURL |-> body.externalURL]
    ELSE [err |-> TRUE, GroupKey |-> "", ExternalURL |-> ""]

\* Where RunLoadTests stands relative to its call of r.Events() (history).
SnapPhase ==
  IF oPc = "rEventsRange" THEN "during"
  ELSE IF oPc \in {"merge", "print", "reset"} THEN "after"
  ELSE "before"

\* Handler, receive.go:94-109 up to the call of Add: decode, log a decode
\* error and go on, build the notification with time.Now().
HandlerBuild(h) ==
  /\ Running /\ mainPc = "select"
  /\ h <= requests
  /\ hPc[h] = "idle" /\ (IF h = 1 THEN TRUE ELSE hPc[h - 1] # "idle")
  /\ \E body \in Bodies, t \in NowValues :
       LET data == Decode(body) IN
       /\ now' = t
       /\ hErr' = [hErr EXCEPT ![h] = data.err]
       /\ hN' = [hN EXCEPT ![h] =
                   [kind |-> "NOTIFICATION", timestamp |-> t,
                    alertmanager |-> data.ExternalURL, groupKey |-> data.GroupKey,
                    id |-> <<0, h>>]]
  /\ hPc' = [hPc EXCEPT ![h] = "built"]
  /\ UNCHANGED <<notifications, mtx, hStatus, hAdded, mergeVars, hashVars, runVars, mainVars, orchVars, prodVars>>

\* notificationList.Add: nl.mtx.Lock(), receive.go:37.
AddLock(h) ==
  /\ Running /\ hPc[h] = "built" /\ mtx = 0
  /\ mtx' = h
  /\ hPc' = [hPc EXCEPT ![h] = "adding"]
  /\ UNCHANGED <<now, notifications, hN, hErr, hStatus, hAdded, mergeVars, hashVars, runVars, mainVars, orchVars, prodVars>>

\* notificationList.Add: append and Unlock (receive.go:38-39).
Add(h) ==
  /\ Running /\ hPc[h] = "adding"
  /\ notifications' = Append(notifications, hN[h])
  /\ mtx' = 0
  /\ hPc' = [hPc EXCEPT ![h] = "added"]
  /\ hAdded' = [hAdded EXCEPT ![h] = [case |-> caseNo, phase |-> SnapPhase]]
  /\ UNCHANGED <<now, hN, hErr, hStatus, mergeVars, hashVars, runVars, mainVars, orchVars, prodVars>>

\* w.WriteHeader(http.StatusOK), receive.go:111, after Add has returned.
WriteHeader(h) ==
  /\ Running /\ hPc[h] = "added"
  /\ hStatus' = [hStatus EXCEPT ![h] = 200]
  /\ hPc' = [hPc EXCEPT ![h] = "done"]
  /\ UNCHANGED <<now, notifications, mtx, hN, hErr, hAdded, mergeVars, hashVars, runVars, mainVars, orchVars, prodVars>>

\* ResetEvents: empties the log under the lock.
ResetEvents ==
  /\ mtx = 0
  /\ notifications' = <<>>

(***************************************************************************)
(* Dataset and AlertProducer (part_001:246-318).                           *)
(***************************************************************************)
Min(a, b) == IF a < b THEN a ELSE b

\* A nil *labels.Labels: an entry of the backing array past len(d.dataset).
Nil == 0

\* The capacity append gives a slice of pointers it has to grow (runtime
\* growslice): the length needed if that is more than twice the old capacity,
\* else twice the old capacity, rounded up to an allocation size class
\* (1, 2, 3, 4, 6, 8, 10, ... words; the rounding is right up to 32 entries).
RoundUpCap(n) == IF n <= 4 THEN n ELSE n + (n % 2)
GrowCap(oldCap, newLen) ==
  IF newLen <= oldCap THEN oldCap
  ELSE RoundUpCap(IF newLen > 2 * oldCap THEN newLen ELSE 2 * oldCap)

\* Reading up to the requested index whatever is cached already.
LinesToRead_All(c, to) == to

\* linesToRead := to - len(d.dataset), line 296.
LinesToRead(c, to) == to - Len(dataset[c])

\* A cache that is replaced by the records just parsed.
Extend_Replace(c, labelsets) == labelsets

\* d.dataset = append(d.dataset, labelsets...), line 315.
Extend(c, labelsets) == dataset[c] \o labelsets

\* Dataset.Get(from, to) on the dataset of case c (lines 288-318); d.mtx is
\* held from the first statement to the return, so the call is one step.
\* Line j of the file is one record and is parsed into label set j.  The
\* result d.dataset[from:to] is a slice-bounds panic when to exceeds the
\* capacity; within the capacity the entries past the length are nil.
Get(c, from, to) ==
  IF to <= Len(dataset[c])
    THEN [dataset |-> dataset[c], dcap |-> dcap[c], scanned |-> scanned[c],
          read |-> 0, parses |-> 0, panic |-> FALSE,
          labelsets |-> SubSeq(dataset[c], from + 1, to)]
    ELSE
      LET linesToRead == LinesToRead(c, to)
          n == Min(linesToRead, config[c].Lines - scanned[c])
          labelsets == [j \in 1..n |-> scanned[c] + j]
          d == Extend(c, labelsets)
          cp == GrowCap(dcap[c], Len(d))
      IN [dataset |-> d, dcap |-> cp, scanned |-> scanned[c] + n,
          read |-> n, parses |-> 1, panic |-> to > cp,
          labelsets |-> IF to > cp THEN <<>>
                        ELSE [j \in 1..(to - from) |->
                                IF from + j <= Len(d) THEN d[from + j] ELSE Nil]]

\* A batcher that never moves its window.
Rotate_Never(i) == FALSE

\* if p.batchRepeated == p.interval, line 255.
Rotate(i) == batchRepeated[i] = config[i[1]].RotationInterval

\* AlertProducer.makeAlerts of producer i = <<case, slot>>, lines 255-258:
\* the window moves when it has been served interval times.
Rotation(i) ==
  /\ index' = [index EXCEPT ![i] =
                 IF Rotate(i) THEN @ + config[i[1]].BatchSize ELSE @]
  /\ batchRepeated' = [batchRepeated EXCEPT ![i] = IF Rotate(i) THEN 0 ELSE @]

\* labelsets := p.dataset.Get(p.index, p.index+p.batch), line 261.  The call
\* waits for d.mtx and holds it until it returns or panics in its result
\* expression (line 317), after the cache has been extended (line 315).
GetCall(i) ==
  /\ Running /\ pPc[i] = "get"
  /\ LET c == i[1]
         from == index[i]
         to == index[i] + config[c].BatchSize
         g == Get(c, from, to)
     IN /\ dataset' = [dataset EXCEPT ![c] = g.dataset]
        /\ scanned' = [scanned EXCEPT ![c] = g.scanned]
        /\ dcap' = [dcap EXCEPT ![c] = g.dcap]
        /\ calls' = [calls EXCEPT ![i] = @ + 1]
        /\ lastGet' = [lastGet EXCEPT ![i] =
                         [from |-> from, to |-> to, len |-> Len(dataset[c]),
                          read |-> g.read, parses |-> g.parses,
                          returned |-> ~g.panic, labelsets |-> g.labelsets]]
        /\ IF g.panic
             THEN Panics("Dataset.Get") /\ UNCHANGED pPc
             ELSE pPc' = [pPc EXCEPT ![i] = "range"] /\ UNCHANGED mainVars
  /\ UNCHANGED <<tick, ticks, am, alerts, eventStore, index, batchRepeated, posts,
                 postErrors, mergeVars, hashVars, runVars, orchVars, recvVars>>

\* The rest of makeAlerts, lines 262-271: the range over the label sets (a
\* nil label set is a nil dereference at line 264), p.batchRepeated++ and the
\* return; then fireAlerts up to the range over the alertmanagers (lines
\* 229-232).
MakeAlertsReturn(i) ==
  /\ Running /\ pPc[i] = "range"
  /\ IF \E j \in 1..Len(lastGet[i].labelsets) : lastGet[i].labelsets[j] = Nil
       THEN /\ Panics("makeAlerts")
            /\ UNCHANGED <<pPc, batchRepeated, alerts, am>>
       ELSE /\ batchRepeated' = [batchRepeated EXCEPT ![i] = @ + 1]
            /\ alerts' = [alerts EXCEPT ![i] = lastGet[i].labelsets]
            /\ am' = [am EXCEPT ![i] = 0]
            /\ pPc' = [pPc EXCEPT ![i] =
                        IF Len(alertmanagers) = 0 THEN "select" ELSE "post"]
            /\ UNCHANGED mainVars
  /\ UNCHANGED <<tick, ticks, eventStore, index, dataset, scanned, dcap, calls,
                 lastGet, posts, postErrors, mergeVars, hashVars, runVars, orchVars,
                 recvVars>>

(***************************************************************************)
(* LoadProducer (part_001:207-244).                                        *)
(***************************************************************************)
\* The ticker of LoadProducer.Run delivers a tick; t.C holds at most one, a
\* tick that finds one waiting is dropped.
Ticker(i) ==
  /\ Running /\ pPc[i] \in {"select", "get", "range", "post"}
  /\ ticks[i] < fires
  /\ ticks' = [ticks EXCEPT ![i] = @ + 1]
  /\ tick' = [tick EXCEPT ![i] = TRUE]
  /\ UNCHANGED <<pPc, am, alerts, eventStore, index, batchRepeated, dataset, scanned, dcap, calls, lastGet,
                 posts, postErrors, mergeVars, hashVars, runVars, mainVars, orchVars, recvVars>>

\* select: case <-t.C (line 220) takes the tick; fireAlerts calls makeAlerts
\* (line 229), which starts with the rotation.
SelectTick(i) ==
  /\ Running /\ pPc[i] = "select" /\ tick[i]
  /\ tick' = [tick EXCEPT ![i] = FALSE]
  /\ Rotation(i)
  /\ pPc' = [pPc EXCEPT ![i] = "get"]
  /\ UNCHANGED <<ticks, am, alerts, eventStore, dataset, scanned, dcap, calls, lastGet,
                 posts, postErrors, mergeVars, hashVars, runVars, mainVars, orchVars,
                 recvVars>>

\* select: case <-stopc (lines 222-223).
SelectStop(i) ==
  /\ Running /\ pPc[i] = "select" /\ cancelled[i[1]]
  /\ pPc' = [pPc EXCEPT ![i] = "stopped"]
  /\ UNCHANGED <<tick, ticks, am, alerts, eventStore, index, batchRepeated, dataset,
                 scanned, dcap, calls, lastGet, posts, postErrors, mergeVars, hashVars, runVars, mainVars, orchVars, recvVars>>

\* A record that names the first target whatever the target delivered to.
FiredEvent_FirstTarget(i, t) ==
  [kind |-> "ALERTS", timestamp |-> t, alertmanager |-> alertmanagers[1],
   alerts |-> alerts[i], id |-> <<i[1], i[2], Len(eventStore[i]) + 1>>]

\* &alertsFiredEvent{alertmanager: am, alerts: alerts, timestamp: time.Now()},
\* line 242; id is the identity of the record (producer and position).
FiredEvent(i, t) ==
  [kind |-> "ALERTS", timestamp |-> t, alertmanager |-> alertmanagers[am[i] + 1],
   alerts |-> alerts[i], id |-> <<i[1], i[2], Len(eventStore[i]) + 1>>]

\* A delivery loop that skips a target on a transport error.
Post_SkipsOnError(i) ==
  /\ Running /\ pPc[i] = "post"
  /\ \E ok \in BOOLEAN :
       /\ posts' = [posts EXCEPT ![i] = @ + 1]
       /\ postErrors' = IF ok THEN postErrors ELSE postErrors + 1
       /\ IF ok
            THEN \E t \in NowValues :
              /\ now' = t
              /\ eventStore' = [eventStore EXCEPT ![i] = Append(@,
                    [kind |-> "ALERTS", timestamp |-> t,
                     alertmanager |-> alertmanagers[am[i] + 1], alerts |-> alerts[i],
                     id |-> <<i[1], i[2], Len(eventStore[i]) + 1>>])]
            ELSE UNCHANGED <<now, eventStore>>
       /\ IF am[i] + 1 = Len(alertmanagers)
            THEN pPc' = [pPc EXCEPT ![i] = "select"] /\ am' = [am EXCEPT ![i] = 0]
            ELSE am' = [am EXCEPT ![i] = @ + 1] /\ UNCHANGED pPc
  /\ UNCHANGED <<tick, ticks, alerts, index, batchRepeated, dataset, scanned, dcap, calls, lastGet, mainVars,
                 notifications, mtx, hPc, hN, hErr, hStatus, hAdded, mergeVars, hashVars, runVars,
                 orchVars>>

\* One iteration of the range over alertmanagers (lines 233-243): the POST,
\* panic on a transport error, else record the event.
Post(i) ==
  /\ Running /\ pPc[i] = "post"
  /\ \E ok \in BOOLEAN :
       IF ~ok
         THEN /\ Panics("http.Post")
              /\ posts' = [posts EXCEPT ![i] = @ + 1]
              /\ postErrors' = postErrors + 1
              /\ UNCHANGED <<now, pPc, tick, ticks, am, alerts, eventStore, index,
                             batchRepeated, dataset, scanned, dcap, calls, lastGet>>
         ELSE \E t \in NowValues :
           /\ now' = t
           /\ posts' = [posts EXCEPT ![i] = @ + 1]
           /\ UNCHANGED postErrors
           /\ eventStore' = [eventStore EXCEPT ![i] = Append(@, FiredEvent(i, t))]
           /\ IF am[i] + 1 = Len(alertmanagers)
                THEN pPc' = [pPc EXCEPT ![i] = "select"] /\ am' = [am EXCEPT ![i] = 0]
                ELSE am' = [am EXCEPT ![i] = @ + 1] /\ UNCHANGED pPc
           /\ UNCHANGED <<tick, ticks, alerts, index, batchRepeated, dataset, scanned, dcap, calls, lastGet,
                          mainVars>>
  /\ UNCHANGED <<notifications, mtx, hPc, hN, hErr, hStatus, hAdded, mergeVars, hashVars, runVars, orchVars>>

(***************************************************************************)
(* RunLoadTests (part_001:25-65), LoadTest.Run and LoadTest.Events.        *)
(***************************************************************************)
\* os.OpenFile of the report file (lines 28-34); the error is returned to the
\* go statement of Main, which drops it.
OpenReportFile ==
  /\ Running /\ oPc = "openReport"
  /\ \E ok \in BOOLEAN :
       IF ok THEN /\ reportFile' = [reportFile EXCEPT ![caseNo] = "open"]
                  /\ oPc' = "openDataset"
             ELSE /\ oPc' = "failed"
                  /\ UNCHANGED reportFile
  /\ UNCHANGED <<caseNo, cancelled, alertsFiredEvents, ltI, ltLen, eLen, notificationsReceivedEvents,
                 printQueue, report, mergeVars, hashVars, runVars, mainVars, prodVars, recvVars>>

\* os.Open of the dataset file, NewDataset and NewLoadTest (lines 36-47 and
\* 89-114): producer slot p starts at index (p-1)*BatchSize.
OpenDataset ==
  /\ Running /\ oPc = "openDataset"
  /\ \E ok \in BOOLEAN :
       IF ok THEN /\ index' = [i \in ProducerIds |->
                                 IF i[1] = caseNo /\ i[2] \in Producers(caseNo)
                                   THEN (i[2] - 1) * config[caseNo].BatchSize
                                   ELSE index[i]]
                  /\ oPc' = "run"
             ELSE /\ oPc' = "failed"
                  /\ UNCHANGED index
  /\ UNCHANGED <<caseNo, cancelled, alertsFiredEvents, ltI, ltLen, eLen, notificationsReceivedEvents,
                 printQueue, report, reportFile, pPc, tick, ticks, am, alerts, eventStore,
                 batchRepeated, dataset, scanned, dcap, calls, lastGet, posts, postErrors, mergeVars, hashVars, runVars, mainVars, recvVars>>

\* LoadTest.Run, lines 117-123: arm the deadline and start the producers.
LtRun ==
  /\ Running /\ oPc = "run"
  /\ pPc' = [i \in ProducerIds |->
               IF i[1] = caseNo /\ i[2] \in Producers(caseNo) THEN "select" ELSE pPc[i]]
  /\ oPc' = "wait"
  /\ UNCHANGED <<caseNo, cancelled, alertsFiredEvents, ltI, ltLen, eLen, notificationsReceivedEvents,
                 printQueue, report, reportFile, tick, ticks, am, alerts, eventStore,
                 index, batchRepeated, dataset, scanned, dcap, calls, lastGet, posts, postErrors, mergeVars, hashVars, runVars, mainVars, recvVars>>

\* The deadline passes: ctx.Done() is closed and Run returns (lines 125-131).
Deadline ==
  /\ Running /\ oPc = "wait"
  /\ cancelled' = [cancelled EXCEPT ![caseNo] = TRUE]
  /\ oPc' = "sleep"
  /\ UNCHANGED <<caseNo, alertsFiredEvents, ltI, ltLen, eLen, notificationsReceivedEvents,
                 printQueue, report, reportFile, mergeVars, hashVars, runVars, mainVars, prodVars, recvVars>>

\* time.Sleep(10 * time.Second), line 50.
Sleep ==
  /\ Running /\ oPc = "sleep"
  /\ oPc' = "ltEvents"
  /\ UNCHANGED <<caseNo, cancelled, alertsFiredEvents, ltI, ltLen, eLen, notificationsReceivedEvents,
                 printQueue, report, reportFile, mergeVars, hashVars, runVars, mainVars, prodVars, recvVars>>

\* An entry read through a torn slice header: not an event of the log.
Garbage == {[kind |-> "garbage", timestamp |-> t, alertmanager |-> "", groupKey |-> "",
             id |-> <<>>] : t \in 0..now}

\* lt.Events(), lines 52 and 169-180, reads the event stores without any
\* synchronization with the producers, which LoadTest.Run never joins.
\* The producer the loop is at.
LtProducer == <<caseNo, ltI + 1>>

\* What a read of lp.eventStore can see: the store; while the producer is
\* inside the delivery loop of fireAlerts its append may be under way, and
\* the read can take the new length over the old array (a torn header),
\* whose last entry is then not an event of the store.
StoreViews(i) ==
  {eventStore[i]} \cup
  (IF pPc[i] = "post" THEN {Append(eventStore[i], g) : g \in Garbage} ELSE {})

\* e[i] = make([]Event, len(lp.eventStore)), line 173.
LtEventsLen ==
  /\ Running /\ oPc = "ltEvents" /\ ltI < config[caseNo].Goroutines
  /\ ltLen' \in {Len(eventStore[LtProducer])} \cup
                (IF pPc[LtProducer] = "post"
                   THEN {Len(eventStore[LtProducer]) + 1} ELSE {})
  /\ oPc' = "ltRange"
  /\ UNCHANGED <<caseNo, cancelled, alertsFiredEvents, ltI, eLen,
                 notificationsReceivedEvents, printQueue, report, reportFile,
                 mergeVars, hashVars, runVars, mainVars, prodVars, recvVars>>

\* The range over lp.eventStore, lines 174-176: an entry beyond len(e[i]) is
\* an index-out-of-range panic, a nil entry panics when it is used.
LtEventsRange ==
  /\ Running /\ oPc = "ltRange"
  /\ \/ \E view \in StoreViews(LtProducer) :
          /\ Len(view) >= ltLen
          /\ IF Len(view) > ltLen
               THEN Panics("lt.Events") /\ UNCHANGED <<oPc, alertsFiredEvents, ltI>>
               ELSE /\ alertsFiredEvents' = Append(alertsFiredEvents, view)
                    /\ ltI' = ltI + 1
                    /\ oPc' = "ltEvents"
                    /\ UNCHANGED mainVars
     \/ /\ pPc[LtProducer] = "post" /\ ltLen = Len(eventStore[LtProducer]) + 1
        /\ Panics("lt.Events") /\ UNCHANGED <<oPc, alertsFiredEvents, ltI>>
  /\ UNCHANGED <<caseNo, cancelled, ltLen, eLen, notificationsReceivedEvents,
                 printQueue, report, reportFile, mergeVars, hashVars, runVars, prodVars, recvVars>>

\* return e, line 179.
LtEvents ==
  /\ Running /\ oPc = "ltEvents" /\ ltI = config[caseNo].Goroutines
  /\ oPc' = "rEventsLen"
  /\ UNCHANGED <<caseNo, cancelled, alertsFiredEvents, ltI, ltLen, eLen,
                 notificationsReceivedEvents, printQueue, report, reportFile,
                 mergeVars, hashVars, runVars, mainVars, prodVars, recvVars>>

\* r.Events(), receive.go:86: e := make([]Event, len(...)), read without the
\* lock.  While an Add is between Lock and Unlock the length read is the one
\* before or the one after the append.
EventsLen ==
  /\ Running /\ oPc = "rEventsLen"
  /\ eLen' \in {Len(notifications)} \cup
               (IF mtx # 0 THEN {Len(notifications) + 1} ELSE {})
  /\ oPc' = "rEventsRange"
  /\ UNCHANGED <<caseNo, cancelled, alertsFiredEvents, ltI, ltLen, notificationsReceivedEvents,
                 printQueue, report, reportFile, mergeVars, hashVars, runVars, mainVars, prodVars, recvVars>>

\* What the unlocked read of the slice header at receive.go:87 can see: the
\* log; while an Add is in progress also the log with the new element, or the
\* new length over the old array (a torn header), whose last entry is then
\* not a notification.  A nil entry is modelled by the panic its use raises.
Views ==
  {notifications} \cup
  (IF mtx # 0
     THEN {Append(notifications, hN[mtx])} \cup {Append(notifications, g) : g \in Garbage}
     ELSE {})

\* r.Events(), receive.go:87-90: the range over the log, e[i] = Event(ev).
\* An entry beyond len(e) is an index-out-of-range panic.
EventsRange ==
  /\ Running /\ oPc = "rEventsRange"
  /\ \/ \E view \in Views :
          /\ Len(view) >= eLen
          /\ IF Len(view) > eLen
               THEN Panics("r.Events") /\ UNCHANGED <<oPc, notificationsReceivedEvents>>
               ELSE /\ notificationsReceivedEvents' = view
                    /\ oPc' = "merge"
                    /\ UNCHANGED mainVars
     \/ /\ mtx # 0 /\ eLen = Len(notifications) + 1
        /\ Panics("r.Events") /\ UNCHANGED <<oPc, notificationsReceivedEvents>>
  /\ UNCHANGED <<caseNo, cancelled, alertsFiredEvents, ltI, ltLen, eLen,
                 printQueue, report, reportFile, mergeVars, hashVars, runVars, prodVars, recvVars>>

\* events := mergeSortEvents(append(alertsFiredEvents, notificationsReceivedEvents)),
\* line 54.
Merge ==
  /\ Running /\ oPc = "merge"
  /\ LET r == mergeSortEvents(Append(alertsFiredEvents, notificationsReceivedEvents)) IN
     IF r.panic
       THEN Panics("mergeSortEvents") /\ UNCHANGED <<oPc, printQueue>>
       ELSE printQueue' = r.events /\ oPc' = "print" /\ UNCHANGED mainVars
  /\ UNCHANGED <<caseNo, cancelled, alertsFiredEvents, ltI, ltLen, eLen, notificationsReceivedEvents,
                 report, reportFile, mergeVars, hashVars, runVars, prodVars, recvVars>>

\* e.Print(reportFile), lines 55-57: one line of the report.
PrintEvent ==
  /\ Running /\ oPc = "print" /\ printQueue # <<>>
  /\ report' = [report EXCEPT ![caseNo] = Append(@, Head(printQueue))]
  /\ printQueue' = Tail(printQueue)
  /\ UNCHANGED <<oPc, caseNo, cancelled, alertsFiredEvents, ltI, ltLen, eLen,
                 notificationsReceivedEvents, reportFile, mergeVars, hashVars, runVars, mainVars, prodVars,
                 recvVars>>

\* reportFile.Close(), line 58.
CloseReport ==
  /\ Running /\ oPc = "print" /\ printQueue = <<>>
  /\ reportFile' = [reportFile EXCEPT ![caseNo] = "closed"]
  /\ oPc' = "reset"
  /\ UNCHANGED <<caseNo, cancelled, alertsFiredEvents, ltI, ltLen, eLen, notificationsReceivedEvents,
                 printQueue, report, mergeVars, hashVars, runVars, mainVars, prodVars, recvVars>>

\* The loop body without the reset of the receiver.
CallResetEvents_NoReset ==
  /\ Running /\ oPc = "reset"
  /\ caseNo' = caseNo + 1
  /\ oPc' = IF caseNo + 1 > NumCases THEN "send" ELSE "openReport"
  /\ alertsFiredEvents' = <<>> /\ ltI' = 0 /\ ltLen' = 0
  /\ eLen' = 0 /\ notificationsReceivedEvents' = <<>>
  /\ UNCHANGED <<cancelled, printQueue, report, reportFile, recvVars,
                 mergeVars, hashVars, runVars, mainVars, prodVars>>

\* r.ResetEvents() and the end of the loop body, lines 60-61.
CallResetEvents ==
  /\ Running /\ oPc = "reset"
  /\ ResetEvents
  /\ caseNo' = caseNo + 1
  /\ oPc' = IF caseNo + 1 > NumCases THEN "send" ELSE "openReport"
  /\ alertsFiredEvents' = <<>> /\ ltI' = 0 /\ ltLen' = 0
  /\ eLen' = 0 /\ notificationsReceivedEvents' = <<>>
  /\ UNCHANGED <<cancelled, printQueue, report, reportFile, now, mtx, hPc, hN, hErr,
                 hStatus, hAdded, mergeVars, hashVars, runVars, mainVars, prodVars>>

\* The send placed inside the loop: a signal after every case.
SendDone_InLoop ==
  /\ Running /\ caseNo > 1 /\ oPc \in {"send", "openReport"} /\ done < 1
  /\ done' = done + 1
  /\ signals' = signals + 1
  /\ oPc' = IF oPc = "send" THEN "returned" ELSE oPc
  /\ UNCHANGED <<proc, exitCode, mainPc, panicIn, caseNo, cancelled, alertsFiredEvents, ltI, ltLen, eLen,
                 notificationsReceivedEvents, printQueue, report, reportFile,
                 mergeVars, hashVars, runVars, prodVars, recvVars>>

\* done <- struct{}{} and return nil, lines 63-64.
SendDone ==
  /\ Running /\ oPc = "send" /\ done < 1
  /\ done' = done + 1
  /\ signals' = signals + 1
  /\ oPc' = "returned"
  /\ UNCHANGED <<proc, exitCode, mainPc, panicIn, caseNo, cancelled, alertsFiredEvents, ltI, ltLen, eLen,
                 notificationsReceivedEvents, printQueue, report, reportFile,
                 mergeVars, hashVars, runVars, prodVars, recvVars>>

(***************************************************************************)
(* Specification of the batcher and the dataset alone: one case of every   *)
(* bounded configuration, whose producers call makeAlerts in any order.    *)
(***************************************************************************)
BatcherConfigs ==
  { << [Goroutines |-> g, BatchSize |-> b, RotationInterval |-> r, Lines |-> n] >> :
      g \in 1..MaxGoroutines, b \in 1..MaxBatch, r \in 0..MaxInterval,
      n \in 0..MaxLines }

InitBatcher ==
  /\ config \in BatcherConfigs /\ requests = 0 /\ fires = 0
  /\ InitProcess
  /\ HashUnused
  /\ mIn = <<>> /\ mOut = NoResult /\ mPc = "unused"

\* The next call of makeAlerts (line 229) by producer i of the case
\* NewLoadTest has set up, the deliveries between two calls left out.
MakeAlertsCall(i) ==
  /\ Running /\ oPc = "run" /\ i[1] = caseNo /\ i[2] \in Producers(caseNo)
  /\ pPc[i] \in {"new", "post"}
  /\ calls[i] < MaxCalls
  /\ Rotation(i)
  /\ pPc' = [pPc EXCEPT ![i] = "get"]
  /\ UNCHANGED <<tick, ticks, am, alerts, eventStore, dataset, scanned, dcap, calls,
                 lastGet, posts, postErrors, mergeVars, hashVars, runVars, mainVars,
                 orchVars, recvVars>>

NextBatcher ==
  \/ OpenReportFile \/ OpenDataset
  \/ \E i \in ProducerIds : MakeAlertsCall(i) \/ GetCall(i) \/ MakeAlertsReturn(i)

SpecBatcher == InitBatcher /\ [][NextBatcher]_vars

InitHash ==
  /\ fIn \in AlertSeqs /\ fPerm = <<>> /\ fOrder = <<>> /\ fOut = NoHashes
  /\ fPc = "ready"
  /\ config = ConfigShort /\ requests = 0 /\ fires = 0
  /\ InitProcess
  /\ mIn = <<>> /\ mOut = NoResult /\ mPc = "unused"

NextHash == HashCall

SpecHash == InitHash /\ [][NextHash]_vars

Init ==
  /\ InitSystem
  /\ HashUnused
  /\ mIn = <<>> /\ mOut = NoResult /\ mPc = "unused"

Next ==
  \/ MainListen \/ MainTerm \/ MainDone
  \/ \E h \in Requests : HandlerBuild(h) \/ AddLock(h) \/ Add(h) \/ WriteHeader(h)
  \/ \E i \in ProducerIds : Ticker(i) \/ SelectTick(i) \/ GetCall(i)
                              \/ MakeAlertsReturn(i) \/ SelectStop(i) \/ Post(i)
  \/ OpenReportFile \/ OpenDataset \/ LtRun \/ Deadline \/ Sleep
  \/ LtEventsLen \/ LtEventsRange \/ LtEvents
  \/ EventsLen \/ EventsRange \/ Merge \/ PrintEvent \/ CloseReport
  \/ CallResetEvents \/ SendDone

Spec == Init /\ [][Next]_vars

(***************************************************************************)
(* Properties of the merge                                                 *)
(***************************************************************************)
SortedAsc(es) ==
  \A i, j \in 1..Len(es) : i < j => es[i].timestamp <= es[j].timestamp

AllEvents(e) == UNION {{e[s][i] : i \in 1..Len(e[s])} : s \in 1..Len(e)}

RECURSIVE TotalLen(_)
TotalLen(e) == IF Len(e) = 0 THEN 0 ELSE Len(e[1]) + TotalLen(Tail(e))

\* The precondition of the merge contract: k >= 1 non-empty sorted inputs.
MergePre ==
  /\ Len(mIn) >= 1
  /\ \A s \in 1..Len(mIn) : Len(mIn[s]) >= 1 /\ SortedAsc(mIn[s])

\* C1: for k >= 1 non-empty inputs, each sorted ascending by timestamp, the
\* merge returns (no panic, the loop ends) a permutation of the concatenated
\* inputs that is sorted ascending by timestamp.
C1_MergeSortedPermutation ==
  (mPc = "done" /\ MergePre) =>
     /\ ~mOut.panic
     /\ Len(mOut.events) = TotalLen(mIn)
     /\ {mOut.events[i] : i \in 1..Len(mOut.events)} = AllEvents(mIn)
     /\ SortedAsc(mOut.events)

C1_Witness ==
  /\ mPc = "done" /\ MergePre
  /\ Len(mIn) = 2
  /\ \A s \in 1..2 : Len(mIn[s]) = 2 /\ mIn[s][1].timestamp < mIn[s][2].timestamp
  /\ mIn[1][1].timestamp > mIn[2][1].timestamp
  /\ mIn[1][2].timestamp > mIn[2][2].timestamp
  /\ Len(mOut.events) = 4

\* C2 (as claimed): among events of equal timestamp the one of the stream
\* listed first is emitted first, so equal timestamps appear in the output in
\* input-stream order; [(1,A),(3,A)] and [(2,B),(3,B)] give
\* [(1,A),(2,B),(3,A),(3,B)].
C2_TieBreakFirstListed ==
  (mPc = "done" /\ MergePre) =>
     \A i, j \in 1..Len(mOut.events) :
        (i < j /\ mOut.events[i].timestamp = mOut.events[j].timestamp)
           => mOut.events[i].stream <= mOut.events[j].stream

(***************************************************************************)
(* Properties of the run                                                   *)
(***************************************************************************)
IsPrefix(a, b) == Len(a) <= Len(b) /\ SubSeq(b, 1, Len(a)) = a

\* Number of lines of the report of case c that print the notification of
\* request h.
Written(h, c) == Cardinality({j \in 1..Len(report[c]) : report[c][j].id = <<0, h>>})

\* C3 (as claimed): the events written to every report are in non-decreasing
\* timestamp order, whatever the interleaving of producers and handlers.
IsEvent(e) == e.kind \in {"ALERTS", "NOTIFICATION"}
C3_ReportChronological ==
  \A c \in Cases : SortedAsc(SelectSeq(report[c], IsEvent))

\* C4 (as claimed): r.Events() never fails and returns the log as it was at
\* one instant: a prefix of the log, the pending append included or not.
C4_EventsSnapshot ==
  /\ panicIn # "r.Events"
  /\ oPc = "merge" =>
       IsPrefix(notificationsReceivedEvents,
                IF mtx # 0 THEN Append(notifications, hN[mtx]) ELSE notifications)

\* C5 (as claimed): a notification appended between the reset of case c-1
\* and the reset of case c is in the report of case c and in no other.
C5_NothingLostAcrossReset ==
  \A h \in Requests :
     (hAdded[h].case \in Cases /\ caseNo > hAdded[h].case) =>
        /\ Written(h, hAdded[h].case) = 1
        /\ \A d \in Cases \ {hAdded[h].case} : Written(h, d) = 0

\* C5 (amended): a notification is written at most once and only to the
\* report of the case during which it is appended, and one appended before
\* RunLoadTests calls r.Events() for case c is in the report of case c once
\* that report is closed.
C5_ReportsOfOwnCase ==
  \A h \in Requests :
     /\ \A c \in Cases :
          /\ Written(h, c) <= 1
          /\ Written(h, c) = 1 =>
               \/ hAdded[h].case = c
               \/ hPc[h] = "adding" /\ caseNo = c
     /\ (hAdded[h].case \in Cases /\ hAdded[h].phase = "before"
           /\ reportFile[hAdded[h].case] = "closed")
          => Written(h, hAdded[h].case) = 1

C5_Witness ==
  /\ NumCases = 2 /\ reportFile[2] = "closed"
  /\ \E g, h \in Requests :
       /\ hAdded[g].case = 1 /\ Written(g, 1) = 1 /\ Written(g, 2) = 0
       /\ hAdded[h].case = 2 /\ Written(h, 2) = 1 /\ Written(h, 1) = 0

\* C6: the completion signal is sent at most once, only when the report of
\* every configured case has been written and closed, and RunLoadTests
\* returns nil exactly when it has sent it.
C6_CompletionOnce ==
  /\ signals <= 1
  /\ signals = 1 => \A c \in Cases : reportFile[c] = "closed"
  /\ signals = 1 <=> oPc = "returned"

C6_Witness ==
  /\ signals = 1 /\ NumCases = 2
  /\ \A c \in Cases : reportFile[c] = "closed" /\ report[c] # <<>>

\* C7 (as claimed): when the report file or the dataset file of a case cannot
\* be opened, no producer of the case is started and the process exits with
\* a non-zero status.
C7_StartupErrorExitsNonZero ==
  oPc = "failed" =>
     /\ \A p \in Producers(caseNo) : pPc[<<caseNo, p>>] = "new"
     /\ proc # "running" => exitCode # 0

\* C8 (as claimed): a request whose body fails to decode appends nothing to
\* the notification log and is answered with status 200.
C8_MalformedIgnored ==
  \A h \in Requests :
     hErr[h] =>
        /\ hAdded[h] = NotAdded
        /\ \A j \in 1..Len(notifications) : notifications[j].id # <<0, h>>
        /\ hPc[h] = "done" => hStatus[h] = 200

\* C9: a transport error of http.Post ends the process: the failed delivery
\* records no FiredEvent, and afterwards no producer makes a delivery, no
\* report line is written and no completion signal is sent.
C9_TransportErrorFatal ==
  [][ /\ postErrors' > postErrors =>
           (eventStore' = eventStore /\ proc' = "panicked" /\ panicIn' = "http.Post")
      /\ postErrors > 0 =>
           (posts' = posts /\ eventStore' = eventStore /\ report' = report
              /\ signals' = signals /\ done' = done) ]_vars

C9_Witness ==
  /\ postErrors = 1 /\ proc = "panicked"
  /\ \E i, j \in ProducerIds :
       /\ i # j /\ pPc[i] = "post" /\ pPc[j] = "post"
       /\ Len(eventStore[i]) = 1 /\ posts[i] = 2

\* C10 (as claimed): once the cancellation signal of a producer has fired,
\* the producer starts no new firing cycle.
C10_NoCycleAfterCancel ==
  [][ \A i \in ProducerIds :
        (cancelled[i[1]] /\ pPc[i] = "select") =>
           (pPc'[i] \in {"select", "stopped"} /\ index'[i] = index[i]
              /\ batchRepeated'[i] = batchRepeated[i]) ]_vars

\* C19 (as claimed): with empty sequences at any position among sorted
\* inputs the merge reads no index past the end of a sequence (no panic) and
\* returns the sorted merge of the events of the non-empty sequences.
C19_EmptyTolerated ==
  (mPc = "done" /\ \A s \in 1..Len(mIn) : SortedAsc(mIn[s])) =>
     /\ ~mOut.panic
     /\ Len(mOut.events) = TotalLen(mIn)
     /\ {mOut.events[i] : i \in 1..Len(mOut.events)} = AllEvents(mIn)
     /\ SortedAsc(mOut.events)

(***************************************************************************)
(* Properties of the batcher and the dataset                               *)
(***************************************************************************)
\* The cursor NewLoadTest gives producer i (part_001:95).
Cursor0(i) == (i[2] - 1) * config[i[1]].BatchSize
Called == {i \in ProducerIds : calls[i] >= 1}
Max(a, b) == IF a > b THEN a ELSE b

\* C12: with rotation interval r >= 1, batch size b and initial cursor c0,
\* the j-th call of makeAlerts requests the window that starts at
\* c0 + floor((j-1)/r)*b and is b wide.
C12_RotationWindow ==
  \A i \in Called :
     LET cfg == config[i[1]] IN
     cfg.RotationInterval >= 1 =>
        /\ lastGet[i].from =
             Cursor0(i) + ((calls[i] - 1) \div cfg.RotationInterval) * cfg.BatchSize
        /\ lastGet[i].to = lastGet[i].from + cfg.BatchSize

C12_Witness ==
  \E i \in Called :
     /\ config[1].RotationInterval = 2 /\ config[1].BatchSize = 2
     /\ calls[i] = 3 /\ lastGet[i].returned /\ proc = "running"
     /\ lastGet[i].from = Cursor0(i) + 2 /\ index[i] = lastGet[i].from

\* C13: a call Get(from, to) on a source that holds at least to records
\* reads max(0, to - len) lines, len being the length of the cache at the
\* call, and runs the parser at most once; with to <= len it reads nothing
\* and does not run the parser.
C13_ReadsWhatIsMissing ==
  \A i \in Called :
     lastGet[i].to <= config[i[1]].Lines =>
        /\ lastGet[i].read = Max(0, lastGet[i].to - lastGet[i].len)
        /\ lastGet[i].parses <= 1
        /\ lastGet[i].to <= lastGet[i].len =>
             (lastGet[i].read = 0 /\ lastGet[i].parses = 0)

C13_Witness ==
  \E i \in Called :
     /\ config[1].Goroutines = 1 /\ config[1].RotationInterval = 1
     /\ config[1].BatchSize = 2 /\ calls[i] = 2
     /\ lastGet[i] = [from |-> 2, to |-> 4, len |-> 2, read |-> 2, parses |-> 1,
                      returned |-> TRUE, labelsets |-> <<3, 4>>]
     /\ scanned[1] = 4

\* C14: whatever the order in which the producers of a case call Get, the
\* cache only grows at its end and is the first len(cache) records of the
\* file in file order, every line scanned being one record of it; a call
\* Get(from, to) on a source that holds at least to records returns the
\* records from..to-1.
C14_CacheIsSourcePrefix ==
  [][ \A c \in CaseIds :
        /\ IsPrefix(dataset[c], dataset'[c])
        /\ dataset'[c] = [j \in 1..Len(dataset'[c]) |-> j]
        /\ Len(dataset'[c]) = scanned'[c]
        /\ \A p \in 1..MaxGoroutines :
             LET g == lastGet'[<<c, p>>] IN
             (calls'[<<c, p>>] >= 1 /\ g.to <= config[c].Lines) =>
                /\ g.returned
                /\ g.labelsets = [j \in 1..(g.to - g.from) |-> g.from + j] ]_vars

C14_Witness ==
  /\ config[1].Goroutines = 2 /\ config[1].BatchSize = 2
  /\ calls[<<1, 1>>] = 1 /\ calls[<<1, 2>>] = 1
  /\ lastGet[<<1, 2>>].len = 0 /\ lastGet[<<1, 2>>].read = 4
  /\ lastGet[<<1, 1>>].len = 4 /\ lastGet[<<1, 1>>].read = 0
  /\ lastGet[<<1, 1>>].labelsets = <<1, 2>>
  /\ dataset[1] = <<1, 2, 3, 4>>

\* C15 (as claimed): a call Get(from, to) on a source that holds fewer than
\* to records does not return to its caller, and the process ends without a
\* batch built from it.
C15_ExhaustedNeverReturns ==
  \A i \in Called :
     lastGet[i].to > config[i[1]].Lines =>
        /\ ~lastGet[i].returned
        /\ proc = "panicked"

\* C20 (as claimed): for every rotation interval r >= 0 the count of calls
\* since the last rotation stays within 0..r and the cursor is its initial
\* value plus a multiple of the batch size.
C20_BatcherInvariant ==
  \A c \in Cases : \A p \in Producers(c) :
     LET i == <<c, p>> IN
     oPc = "run" =>
        /\ 0 <= batchRepeated[i] /\ batchRepeated[i] <= config[c].RotationInterval
        /\ index[i] >= Cursor0(i)
        /\ (index[i] - Cursor0(i)) % config[c].BatchSize = 0

(***************************************************************************)
(* Properties of the producers                                             *)
(***************************************************************************)
\* The last call of Dataset.Get by producer i has given makeAlerts no batch
\* to return: it panicked, or makeAlerts is still at the range over its
\* result.
CallFailed(i) ==
  /\ calls[i] >= 1
  /\ \/ ~lastGet[i].returned
     \/ pPc[i] = "range"

\* The batches producer i has obtained.
Batches(i) == calls[i] - (IF CallFailed(i) THEN 1 ELSE 0)

\* C11: with targets t1..tm, every cycle of a producer obtains one batch and
\* records one event per delivery made, for t1..tm in that order and all with
\* the batch of the cycle; the log is in firing order (positions increase,
\* no timestamp is earlier than one before it), holds m events per completed
\* cycle, and one event per successful delivery.
C11_FiringCycle ==
  \A i \in ProducerIds :
     LET m == Len(alertmanagers)
         es == eventStore[i]
     IN /\ \A n \in 1..Len(es) :
             /\ es[n].alertmanager = alertmanagers[((n - 1) % m) + 1]
             /\ es[n].id = <<i[1], i[2], n>>
        /\ \A n, k \in 1..Len(es) :
             /\ (n - 1) \div m = (k - 1) \div m => es[n].alerts = es[k].alerts
             /\ n < k => es[n].timestamp <= es[k].timestamp
        /\ Len(es) = IF pPc[i] = "post" THEN m * (Batches(i) - 1) + am[i]
                                         ELSE m * Batches(i)
        /\ pPc[i] = "post" =>
             \A n \in (Len(es) - am[i] + 1)..Len(es) : es[n].alerts = alerts[i]
        /\ Len(es) <= posts[i]
        /\ posts[i] <= Len(es) + (IF postErrors > 0 THEN 1 ELSE 0)

C11_Witness ==
  \E i \in ProducerIds :
     /\ pPc[i] = "select" /\ calls[i] = 1 /\ posts[i] = 2
     /\ Len(eventStore[i]) = 2
     /\ eventStore[i][1].alertmanager = "am1" /\ eventStore[i][2].alertmanager = "am2"
     /\ eventStore[i][1].alerts = eventStore[i][2].alerts
     /\ eventStore[i][1].alerts # <<>>

\* Event ev is a line of the report of case c.
InReport(c, ev) == \E j \in 1..Len(report[c]) : report[c][j] = ev

\* C18 (as claimed): the events of a log lt.Events() has collected are the
\* whole log of its producer, which has stopped and records nothing later;
\* and every event the producers of a case have recorded is in the closed
\* report of the case.
C18_CollectedAfterStop ==
  /\ \A p \in 1..Len(alertsFiredEvents) :
        eventStore[<<caseNo, p>>] = SelectSeq(alertsFiredEvents[p], IsEvent)
  /\ \A c \in Cases :
        reportFile[c] = "closed" =>
           \A p \in Producers(c) :
              \A n \in 1..Len(eventStore[<<c, p>>]) :
                 InReport(c, eventStore[<<c, p>>][n])


\* The multiset of the elements of a sequence.
BagOf(seq) ==
  [x \in {seq[i] : i \in DOMAIN seq} |-> Cardinality({i \in DOMAIN seq : seq[i] = x})]

\* One order of ranging for each alert of the sequence as it was built.
RefOrders == CHOOSE orders \in MapOrders(fIn) : TRUE

\* C16: in whatever order the alerts are handed over and in whatever order
\* each alert's label map is ranged over, the multiset of the per-alert
\* hashes and the fingerprint, from hashHashes and from hashAlerts, are those
\* of the alerts in their first order.
C16_OrderIndependent ==
  fPc = "done" =>
    /\ BagOf(fOut.hashes) = BagOf(alertHashes(fIn, RefOrders))
    /\ fOut.fingerprint = hashHashes(alertHashes(fIn, RefOrders))
    /\ fOut.direct = hashAlerts(fIn, RefOrders)

\* Two different alerts handed over in the other order, with other hashes,
\* and the two labels of one of them ranged over against the sorted order.
C16_Witness ==
  /\ fPc = "done"
  /\ Len(fIn) = 2
  /\ fPerm = <<2, 1>>
  /\ fOut.hashes[1] # fOut.hashes[2]
  /\ fOut.hashes # alertHashes(fIn, RefOrders)
  /\ \E i \in 1..2 : Len(fOrder[i]) = 2 /\ fOrder[i] # SortStrings(fOrder[i])

\* C17: the fingerprint of a sequence of alerts followed by itself is 0, the
\* fingerprint of no alerts.
C17_DoubledIsZero ==
  fPc = "done" =>
    /\ fOut.doubled = Zero64
    /\ fOut.doubled = hashHashes(alertHashes(<<>>, <<>>))

\* Two alerts whose own fingerprint is not 0, hashed twice over.
C17_Witness ==
  /\ fPc = "done"
  /\ Len(fIn) = 2
  /\ fOut.fingerprint # Zero64
  /\ fOut.doubled = Zero64

====
